---- MODULE Spec2Model ----
(***************************************************************************)
(* Task lifecycle, deadline sweep and competitive scoring of the           *)
(* classMaster backend (src/main.py).                                      *)
(*                                                                         *)
(* The relational store is modelled by the variables anns, todos,          *)
(* enrolled and leaderboard; SQL NULL is the value None.  Time is counted  *)
(* in ticks of 1/TicksPerHour hour.  Point amounts are real numbers in     *)
(* the code (hours_diff is a float); they are kept exact here by counting  *)
(* them in units of 1/TicksPerHour point (Pts(100) is 100 points).         *)
(***************************************************************************)
EXTENDS Integers, Sequences, FiniteSets, TLC

\* ---------------------------------------------------------------- bounds
MaxAnn == 1           \* announcement ids handed out
MaxTodoId == 2        \* todo ids handed out
MaxPersonal == 1      \* tasks created by create_student_task / create_faculty_task
MaxOthers == 3        \* other leaderboard rows in the scoring probe
TicksPerHour == 2     \* resolution of the clock and of the point amounts

\* ------------------------------------------------------- model universe
TicksPerDay == 24 * TicksPerHour
Hours(h) == h * TicksPerHour

Students == {"s1", "s2"}
Faculty == {"f1"}
None == "none"        \* SQL NULL of a text column
NoTime == -1          \* SQL NULL of a timestamp or date column
NoAnn == 0            \* SQL NULL of "Todo".related_announcement
Statuses == {"pending", "completed", "delayed"}
ReqStatuses == Statuses \cup {"archived"}
AnnTypes == {"quiz", "assignment", "general"}
AnnTitles == {"HW"}
TaskTitles == {"Read"}
CourseCode == "CSE101"

\* clock readings at which requests and sweeps happen (10 h before and 11 h
\* after the deadline), and the deadline a faculty member may set
Instants == {Hours(15), Hours(36)}
Deadlines == {Hours(25)}

Pts(p) == p * TicksPerHour
Min(a, b) == IF a < b THEN a ELSE b
Max(a, b) == IF a > b THEN a ELSE b

VARIABLES
    now,          \* wall clock, in ticks
    enrolled,     \* "Student_Section": students enrolled in the section
    anns,         \* "Announcement": id -> row
    nextAnnId,    \* serial of "Announcement"
    todos,        \* "Todo": id -> row
    nextTodoId,   \* serial of "Todo"
    leaderboard,  \* "Leaderboard": student -> row (one course)
    last,         \* the last request and its response
    probe,        \* one call of the scoring functions: its arguments and results
    inflight,     \* student status updates in progress: request -> its locals
    sweeper,      \* the task running background_quiz_updater: running or stopped
    expired_quizzes   \* the sweep in progress: the fetched rows not yet updated

vars == <<now, enrolled, anns, nextAnnId, todos, nextTodoId, leaderboard, last, probe,
          inflight, sweeper, expired_quizzes>>

\* ------------------------------------------------------------- rows
\* "Student".preferred_anonymous_name: optional, and free to be the name of
\* the user itself (as for the third student)
PreferredAnonymousName(s) ==
    CASE s = "s1" -> "Shadow"
      [] s = "s3" -> "Carol"
      [] OTHER -> None

\* f"{announcement.type.title()}: {announcement.title}"
TypeTitle(type) ==
    CASE type = "quiz" -> "Quiz"
      [] type = "assignment" -> "Assignment"
      [] OTHER -> "General"

TodoTitle(type, title) == TypeTitle(type) \o ": " \o title

\* announcement.deadline.date() if announcement.deadline else None
DateOf(deadline) == IF deadline = NoTime THEN NoTime ELSE deadline \div TicksPerDay

\* datetime.combine(due_date, datetime.min.time())
MidnightOf(due_date) == due_date * TicksPerDay

NewTodo(user, title, due_date, ann) ==
    [user_id |-> user, title |-> title, status |-> "pending",
     due_date |-> due_date, related_announcement |-> ann]

\* LEFT JOIN "Announcement" a ON t.related_announcement = a.announcement_id
AnnouncementType(t) ==
    IF todos[t].related_announcement \in DOMAIN anns
    THEN anns[todos[t].related_announcement].type ELSE None

AnnouncementDeadline(t) ==
    IF todos[t].related_announcement \in DOMAIN anns
    THEN anns[todos[t].related_announcement].deadline ELSE NoTime

TaskCourseCode(t) ==
    IF todos[t].related_announcement \in DOMAIN anns
    THEN anns[todos[t].related_announcement].section_course_code ELSE None

\* ------------------------------------------------------------ scoring
RECURSIVE InsertDesc(_, _)
InsertDesc(x, seq) ==
    IF seq = << >> THEN <<x>>
    ELSE IF x >= Head(seq) THEN <<x>> \o seq
    ELSE <<Head(seq)>> \o InsertDesc(x, Tail(seq))

\* all_points.sort(reverse=True)
RECURSIVE SortDesc(_)
SortDesc(seq) ==
    IF seq = << >> THEN << >> ELSE InsertDesc(Head(seq), SortDesc(Tail(seq)))

\* the 0-based position of the last element equal to x
IndexOf_Last(seq, x) == (CHOOSE i \in 1..Len(seq) :
                            seq[i] = x /\ \A j \in (i + 1)..Len(seq) : seq[j] # x) - 1

\* all_points.index(x): 0-based position of the first element equal to x
IndexOf(seq, x) == (CHOOSE i \in 1..Len(seq) :
                       seq[i] = x /\ \A j \in 1..(i - 1) : seq[j] # x) - 1

RECURSIVE SeqOfRows(_, _)
SeqOfRows(lb, S) ==
    IF S = {} THEN << >>
    ELSE LET s == CHOOSE x \in S : TRUE
         IN <<[student_id |-> s, total_points |-> lb[s].total_points]>>
                \o SeqOfRows(lb, S \ {s})

\* the rows of the course, as fetched
LeaderboardRows(lb) == SeqOfRows(lb, DOMAIN lb)

\* early bonus without the cap
early_bonus_NoCap(hours_diff) ==
    IF hours_diff < 0 THEN (0 - hours_diff) * 3 ELSE 0

early_bonus(hours_diff) ==
    IF hours_diff < 0 THEN Min((0 - hours_diff) * 3, Pts(72)) ELSE 0

late_penalty(hours_diff) ==
    IF hours_diff > 0 THEN Min(hours_diff * 10, Pts(100)) ELSE 0

AssignmentPointsOf(hours_diff) == early_bonus(hours_diff) - late_penalty(hours_diff)

\* current_student_points: the first row of the student, 0 when there is none
CurrentStudentPoints(rows, student) ==
    IF \E i \in 1..Len(rows) : rows[i].student_id = student
    THEN rows[CHOOSE i \in 1..Len(rows) :
                /\ rows[i].student_id = student
                /\ \A j \in 1..(i - 1) : rows[j].student_id # student].total_points
    ELSE 0

OtherPoints(rows, student) ==
    LET keep(r) == r.student_id # student
        picked == SelectSeq(rows, keep)
    IN [i \in 1..Len(picked) |-> picked[i].total_points]

\* no bonus when there is nobody to compete with
PercentileBonus_SoleNoBonus(new_rank, total_students) ==
    IF total_students = 1 THEN 0
    ELSE IF (total_students - new_rank + 1) * 100 >= 75 * total_students THEN Pts(25)
    ELSE IF (total_students - new_rank + 1) * 100 >= 50 * total_students THEN Pts(15)
    ELSE 0

\* percentile compared with > where the code has >=
PercentileBonus_Strict(new_rank, total_students) ==
    IF total_students = 1 THEN Pts(25)
    ELSE IF (total_students - new_rank + 1) * 100 > 75 * total_students THEN Pts(25)
    ELSE IF (total_students - new_rank + 1) * 100 > 50 * total_students THEN Pts(15)
    ELSE 0

\* bonus from the percentile of new_rank among total_students
PercentileBonus(new_rank, total_students) ==
    IF total_students = 1 THEN Pts(25)
    ELSE IF (total_students - new_rank + 1) * 100 >= 75 * total_students THEN Pts(25)
    ELSE IF (total_students - new_rank + 1) * 100 >= 50 * total_students THEN Pts(15)
    ELSE 0

NewRank(all_points, new_total) == IndexOf(SortDesc(all_points), new_total) + 1

\* calculate_competitive_bonus, as a record of its intermediate values
Competitive(rows, student, new_points) ==
    LET current == CurrentStudentPoints(rows, student)
        new_total == current + Pts(100) + new_points
        all_points == Append(OtherPoints(rows, student), new_total)
        new_rank == NewRank(all_points, new_total)
    IN IF current = 0
       THEN [found |-> FALSE, new_total |-> 0, n |-> 0, rank |-> 0, bonus |-> 0]
       ELSE [found |-> TRUE, new_total |-> new_total, n |-> Len(all_points),
             rank |-> new_rank,
             bonus |-> PercentileBonus(new_rank, Len(all_points))]

calculate_competitive_bonus(rows, student, new_points) ==
    Competitive(rows, student, new_points).bonus

\* calculate_assignment_points
calculate_assignment_points(rows, student, task_deadline, completion_time) ==
    LET assignment_points == AssignmentPointsOf(completion_time - task_deadline)
        competitive_bonus == calculate_competitive_bonus(rows, student, assignment_points)
    IN Max(Pts(100) + assignment_points + competitive_bonus, 0)

\* total_points = $1 where the code has total_points = total_points + $1
update_leaderboard_points_Replace(lb, student, points_to_add) ==
    IF student \in DOMAIN lb
    THEN [lb EXCEPT ![student].total_points = points_to_add,
                    ![student].last_updated = now]
    ELSE lb

\* update_leaderboard_points
update_leaderboard_points(lb, student, points_to_add) ==
    IF student \in DOMAIN lb
    THEN [lb EXCEPT ![student].total_points = @ + points_to_add,
                    ![student].last_updated = now]
    ELSE lb

\* ------------------------------------------------------------ responses
\* last names the handler that ran last and its response: the HTTP status,
\* which HTTPException it raised, and for an accepted status update the task,
\* its previous status, the requested status, the points_awarded and the id
\* of the spawned task; for a sweep the number of rows it updated and whether
\* it directly follows a sweep that ran to its end; for a created or updated
\* announcement its id
NoRequest ==
    [op |-> "none", code |-> 0, detail |-> "ok", tid |-> 0, prev |-> None,
     req |-> None, scored |-> FALSE, points |-> 0, count |-> 0, repeat |-> FALSE,
     created |-> 0, ann |-> NoAnn]

NoProbe ==
    [stage |-> "off", student |-> None, rows |-> << >>, hours_diff |-> 0,
     assignment_points |-> 0, new_rank |-> 0, competitive_bonus |-> 0,
     final_points |-> 0]

Response(op, code, detail) ==
    [NoRequest EXCEPT !.op = op, !.code = code, !.detail = detail]

\* the requests that may be in progress at the same time
Requests == {"r1", "r2"}

\* task_record before the row is fetched
NoRecord ==
    [status |-> None, due_date |-> NoTime, announcement_type |-> None,
     announcement_deadline |-> NoTime, course_code |-> None]

\* the locals of a call of update_student_task_status: pc is the statement
\* it waits on, updated_record tells whether the UPDATE returned a row,
\* awarded whether the UPDATE of "Leaderboard" has changed a row, code and
\* detail are the response
Idle ==
    [pc |-> "idle", student_id |-> None, todo_id |-> 0, new_status |-> None,
     task_record |-> NoRecord, updated_record |-> "unset", points_awarded |-> 0,
     awarded |-> FALSE, code |-> 0, detail |-> "ok"]

NoInflight == [p \in Requests |-> Idle]

\* no sweep in progress; during one, rows holds the fetched (todo_id, user_id)
\* pairs the loop has not reached yet
NoSweep == [pc |-> "idle", rows |-> {}]

Init ==
    /\ now = Hours(15)
    /\ enrolled = {}
    /\ anns = << >>
    /\ nextAnnId = 1
    /\ todos = << >>
    /\ nextTodoId = 1
    /\ leaderboard = << >>
    /\ last = NoRequest
    /\ probe = NoProbe
    /\ inflight = NoInflight
    /\ sweeper = "running"
    /\ expired_quizzes = NoSweep

\* --------------------------------------------------------------- clock
Tick(t) ==
    /\ t > now
    /\ now' = t
    /\ last' = Response("tick", 0, "ok")
    /\ UNCHANGED <<enrolled, anns, nextAnnId, todos, nextTodoId, leaderboard, probe, inflight, sweeper, expired_quizzes>>

\* ---------------------------------------------------------- enrollment
\* ON CONFLICT (course_code, student_id) DO UPDATE SET total_points = 100
InitializeEntry_Overwrite(lb, s) ==
    [x \in DOMAIN lb \cup {s} |->
        IF x = s
        THEN [total_points |-> Pts(100), is_anonymous |-> FALSE,
              anonymous_name |-> PreferredAnonymousName(s), last_updated |-> now]
        ELSE lb[x]]

\* INSERT INTO "Leaderboard" ... VALUES ($1, $2, 100, FALSE, $3)
\* ON CONFLICT (course_code, student_id) DO NOTHING
\* last_updated is not named by the INSERT: the column takes its default,
\* the time of the insertion (LeaderboardEntry.last_updated is a datetime,
\* never NULL)
InitializeEntry(lb, s) ==
    IF s \in DOMAIN lb THEN lb
    ELSE [x \in DOMAIN lb \cup {s} |->
             IF x = s
             THEN [total_points |-> Pts(100), is_anonymous |-> FALSE,
                   anonymous_name |-> PreferredAnonymousName(s),
                   last_updated |-> now]
             ELSE lb[x]]

\* assign_student_to_section; a student already enrolled in the course is
\* turned away with 400 and nothing changes
assign_student_to_section(s) ==
    /\ s \notin enrolled
    /\ enrolled' = enrolled \cup {s}
    /\ leaderboard' = InitializeEntry(leaderboard, s)
    /\ last' = Response("enroll", 201, "ok")
    /\ UNCHANGED <<now, anns, nextAnnId, todos, nextTodoId, probe, inflight, sweeper, expired_quizzes>>

\* ------------------------------------------------------- announcements
\* the orders in which the rows of a set may be fetched
Orderings(S) ==
    {f \in [1..Cardinality(S) -> S] : \A i, j \in DOMAIN f : f[i] = f[j] => i = j}

\* one todo per fetched student, then one for the authoring faculty member
TodosForAnnouncement(order, f, type, title, deadline, id, first) ==
    [t \in first..(first + Len(order)) |->
        IF t < first + Len(order)
        THEN NewTodo(order[t - first + 1], TodoTitle(type, title), DateOf(deadline), id)
        ELSE NewTodo(f, TodoTitle(type, title), DateOf(deadline), id)]

Merge(f, g) ==
    [x \in DOMAIN f \cup DOMAIN g |-> IF x \in DOMAIN g THEN g[x] ELSE f[x]]

Restrict(f, S) == [x \in S |-> f[x]]

\* WHERE related_announcement = $1 OR related_announcement IS NULL
TodosOf_OrUnlinked(id) ==
    {t \in DOMAIN todos : todos[t].related_announcement \in {id, NoAnn}}

\* SELECT / DELETE ... FROM "Todo" WHERE related_announcement = $1
TodosOf(id) == {t \in DOMAIN todos : todos[t].related_announcement = id}

\* a quiz or an assignment needs a deadline (400 otherwise)
DeadlineValid(type, deadline) ==
    ~(type \in {"quiz", "assignment"} /\ deadline = NoTime)

\* create_announcement_for_section; a request turned away with 400 changes
\* nothing
create_announcement_for_section(f, type, title, deadline, order) ==
    /\ nextAnnId <= MaxAnn
    /\ DeadlineValid(type, deadline)
    /\ type \in {"quiz", "assignment"} => nextTodoId + Len(order) <= MaxTodoId
    /\ anns' = Merge(anns, [i \in {nextAnnId} |->
                   [title |-> title, type |-> type, deadline |-> deadline,
                    faculty_id |-> f, section_course_code |-> CourseCode]])
    /\ nextAnnId' = nextAnnId + 1
    /\ IF type \in {"quiz", "assignment"}
       THEN /\ todos' = Merge(todos, TodosForAnnouncement(order, f, type, title,
                                          deadline, nextAnnId, nextTodoId))
            /\ nextTodoId' = nextTodoId + Len(order) + 1
       ELSE UNCHANGED <<todos, nextTodoId>>
    /\ last' = [Response("createAnnouncement", 201, "ok") EXCEPT !.ann = nextAnnId]
    /\ UNCHANGED <<now, enrolled, leaderboard, probe, inflight, sweeper, expired_quizzes>>

\* update_announcement; a request turned away with 404 or 400 changes nothing
update_announcement(f, id, type, title, deadline, order) ==
         /\ id \in DOMAIN anns /\ anns[id].faculty_id = f
         /\ DeadlineValid(type, deadline)
         /\ anns' = [anns EXCEPT ![id].title = title, ![id].type = type,
                                 ![id].deadline = deadline]
         /\ IF TodosOf(id) # {}
            THEN IF type \in {"quiz", "assignment"}
                 THEN /\ todos' = [t \in DOMAIN todos |->
                                     IF t \in TodosOf(id)
                                     THEN [todos[t] EXCEPT !.title = TodoTitle(type, title),
                                                           !.due_date = DateOf(deadline)]
                                     ELSE todos[t]]
                      /\ UNCHANGED nextTodoId
                 ELSE /\ todos' = Restrict(todos, DOMAIN todos \ TodosOf(id))
                      /\ UNCHANGED nextTodoId
            ELSE IF type \in {"quiz", "assignment"}
                 THEN /\ nextTodoId + Len(order) <= MaxTodoId
                      /\ todos' = Merge(todos, TodosForAnnouncement(order, f, type, title,
                                                    deadline, id, nextTodoId))
                      /\ nextTodoId' = nextTodoId + Len(order) + 1
                 ELSE UNCHANGED <<todos, nextTodoId>>
         /\ last' = [Response("updateAnnouncement", 200, "ok") EXCEPT !.ann = id]
         /\ UNCHANGED <<now, enrolled, nextAnnId, leaderboard, probe, inflight, sweeper, expired_quizzes>>

\* delete_announcement; a request turned away with 404 changes nothing
delete_announcement(f, id) ==
         /\ id \in DOMAIN anns /\ anns[id].faculty_id = f
         /\ todos' = Restrict(todos, DOMAIN todos \ TodosOf(id))
         /\ anns' = Restrict(anns, DOMAIN anns \ {id})
         /\ last' = Response("deleteAnnouncement", 200, "ok")
         /\ UNCHANGED <<now, enrolled, nextAnnId, nextTodoId, leaderboard, probe, inflight, sweeper, expired_quizzes>>

\* ------------------------------------------------------ personal tasks
PersonalCount == Cardinality({t \in DOMAIN todos : todos[t].title \in TaskTitles})

\* the body shared by create_student_task and create_faculty_task; a request
\* for another user's list is turned away with 403 and changes nothing
CreatePersonalTask(actor, user, title, due_date) ==
         /\ actor = user
         /\ nextTodoId <= MaxTodoId
         /\ PersonalCount < MaxPersonal
         /\ todos' = Merge(todos, [t \in {nextTodoId} |->
                                      NewTodo(user, title, due_date, NoAnn)])
         /\ nextTodoId' = nextTodoId + 1
         /\ last' = [Response("createTask", 201, "ok") EXCEPT !.tid = nextTodoId]
         /\ UNCHANGED <<now, enrolled, anns, nextAnnId, leaderboard, probe, inflight, sweeper, expired_quizzes>>

create_student_task(actor, student_id, title, due_date) ==
    CreatePersonalTask(actor, student_id, title, due_date)

create_faculty_task(actor, faculty_id, title, due_date) ==
    CreatePersonalTask(actor, faculty_id, title, due_date)

\* ------------------------------------------------------- status updates
\* a rejected request changes nothing
Rejected(op, code, detail, todo_id) ==
    /\ last' = [Response(op, code, detail) EXCEPT !.tid = todo_id]
    /\ UNCHANGED <<now, enrolled, anns, nextAnnId, todos, nextTodoId,
                 leaderboard, probe, inflight, sweeper, expired_quizzes>>

\* HTTP status of each HTTPException raised by the two update handlers
CodeOf(detail) ==
    CASE detail = "own" -> 403
      [] detail = "notfound" -> 404
      [] detail = "invalid" -> 400
      [] detail = "quiz" -> 403
      [] detail = "completed" -> 403
      [] OTHER -> 200

\* update_student_task_status without the quiz branch
StudentUpdateOutcome_NoQuizCheck(actor, student_id, todo_id, new_status) ==
    IF actor # student_id THEN "own"
    ELSE IF ~(todo_id \in DOMAIN todos /\ todos[todo_id].user_id = student_id)
    THEN "notfound"
    ELSE IF new_status \notin Statuses THEN "invalid"
    ELSE IF AnnouncementType(todo_id) = "assignment"
            /\ todos[todo_id].status = "completed"
    THEN "completed"
    ELSE "ok"

\* update_student_task_status rejecting only the way back to pending
StudentUpdateOutcome_RevertOnly(actor, student_id, todo_id, new_status) ==
    IF actor # student_id THEN "own"
    ELSE IF ~(todo_id \in DOMAIN todos /\ todos[todo_id].user_id = student_id)
    THEN "notfound"
    ELSE IF new_status \notin Statuses THEN "invalid"
    ELSE IF AnnouncementType(todo_id) = "quiz" THEN "quiz"
    ELSE IF AnnouncementType(todo_id) = "assignment"
            /\ new_status = "pending" /\ todos[todo_id].status = "completed"
    THEN "completed"
    ELSE "ok"

\* task_sql without "t.user_id = $1": the row is found whoever owns it
StudentUpdateOutcome_AnyOwner(actor, student_id, todo_id, new_status) ==
    IF actor # student_id THEN "own"
    ELSE IF todo_id \notin DOMAIN todos THEN "notfound"
    ELSE IF new_status \notin Statuses THEN "invalid"
    ELSE IF AnnouncementType(todo_id) = "quiz" THEN "quiz"
    ELSE IF AnnouncementType(todo_id) = "assignment"
            /\ todos[todo_id].status = "completed"
    THEN "completed"
    ELSE "ok"

\* update_student_task_status with the category rules ahead of the
\* validation of the requested status
StudentUpdateOutcome_CategoryFirst(actor, student_id, todo_id, new_status) ==
    IF actor # student_id THEN "own"
    ELSE IF ~(todo_id \in DOMAIN todos /\ todos[todo_id].user_id = student_id)
    THEN "notfound"
    ELSE IF AnnouncementType(todo_id) = "quiz" THEN "quiz"
    ELSE IF AnnouncementType(todo_id) = "assignment"
            /\ todos[todo_id].status = "completed"
    THEN "completed"
    ELSE IF new_status \notin Statuses THEN "invalid"
    ELSE "ok"

\* update_student_task_status freezing an assignment task once it has left
\* pending: a delayed one is turned away like a completed one
StudentUpdateOutcome_DelayedFrozen(actor, student_id, todo_id, new_status) ==
    IF actor # student_id THEN "own"
    ELSE IF ~(todo_id \in DOMAIN todos /\ todos[todo_id].user_id = student_id)
    THEN "notfound"
    ELSE IF new_status \notin Statuses THEN "invalid"
    ELSE IF AnnouncementType(todo_id) = "quiz" THEN "quiz"
    ELSE IF AnnouncementType(todo_id) = "assignment"
            /\ todos[todo_id].status \in {"completed", "delayed"}
    THEN "completed"
    ELSE "ok"

\* the checks of update_student_task_status, in the order of the code:
\* which HTTPException the request raises, "ok" when it raises none
StudentUpdateOutcome(actor, student_id, todo_id, new_status) ==
    IF actor # student_id THEN "own"
    ELSE IF ~(todo_id \in DOMAIN todos /\ todos[todo_id].user_id = student_id)
    THEN "notfound"
    ELSE IF new_status \notin Statuses THEN "invalid"
    ELSE IF AnnouncementType(todo_id) = "quiz" THEN "quiz"
    ELSE IF AnnouncementType(todo_id) = "assignment"
            /\ todos[todo_id].status = "completed"
    THEN "completed"
    ELSE "ok"

\* points for every accepted update of an assignment task
Qualifies_AnyStatus(todo_id, new_status) ==
    /\ AnnouncementType(todo_id) = "assignment"
    /\ TaskCourseCode(todo_id) # None
    /\ (AnnouncementDeadline(todo_id) # NoTime \/ todos[todo_id].due_date # NoTime)

\* the condition under which update_student_task_status awards points
Qualifies(todo_id, new_status) ==
    /\ new_status = "completed"
    /\ AnnouncementType(todo_id) = "assignment"
    /\ TaskCourseCode(todo_id) # None
    /\ (AnnouncementDeadline(todo_id) # NoTime \/ todos[todo_id].due_date # NoTime)

\* task_deadline = announcement_deadline if announcement_deadline
\*                 else datetime.combine(due_date, datetime.min.time())
TaskDeadline(todo_id) ==
    IF AnnouncementDeadline(todo_id) # NoTime
    THEN AnnouncementDeadline(todo_id)
    ELSE MidnightOf(todos[todo_id].due_date)

\* points_awarded of an accepted request
PointsAwarded(student_id, todo_id, new_status) ==
    IF Qualifies(todo_id, new_status)
    THEN calculate_assignment_points(LeaderboardRows(leaderboard), student_id,
                                     TaskDeadline(todo_id), now)
    ELSE 0

\* update_student_task_status with the UPDATE ahead of the category rules:
\* a request the rules reject has already changed the status
update_student_task_status_WriteFirst(actor, student_id, todo_id, new_status) ==
    LET outcome == StudentUpdateOutcome(actor, student_id, todo_id, new_status)
    IN IF outcome \in {"own", "notfound", "invalid"}
       THEN Rejected("updateStudent", CodeOf(outcome), outcome, 0)
       ELSE IF outcome \in {"quiz", "completed"}
       THEN /\ todos' = [todos EXCEPT ![todo_id].status = new_status]
            /\ last' = [Response("updateStudent", CodeOf(outcome), outcome)
                          EXCEPT !.tid = todo_id]
            /\ UNCHANGED <<now, enrolled, anns, nextAnnId, nextTodoId,
                         leaderboard, probe, inflight, sweeper, expired_quizzes>>
       ELSE LET points_awarded == PointsAwarded(student_id, todo_id, new_status)
            IN /\ todos' = [todos EXCEPT ![todo_id].status = new_status]
               /\ leaderboard' =
                     IF points_awarded > 0
                     THEN update_leaderboard_points(leaderboard, student_id,
                                                    points_awarded)
                     ELSE leaderboard
               /\ last' = [Response("updateStudent", 200, "ok") EXCEPT
                              !.tid = todo_id,
                              !.prev = todos[todo_id].status,
                              !.req = new_status,
                              !.scored = Qualifies(todo_id, new_status),
                              !.points = points_awarded]
               /\ UNCHANGED <<now, enrolled, anns, nextAnnId, nextTodoId, probe,
                            inflight, sweeper, expired_quizzes>>

\* update_student_task_status calling update_leaderboard_points for every
\* scored completion, also when points_awarded is 0
update_student_task_status_AwardAlways(actor, student_id, todo_id, new_status) ==
    LET outcome == StudentUpdateOutcome(actor, student_id, todo_id, new_status)
    IN IF outcome # "ok"
       THEN Rejected("updateStudent", CodeOf(outcome), outcome,
                     IF outcome \in {"quiz", "completed"} THEN todo_id ELSE 0)
       ELSE LET points_awarded == PointsAwarded(student_id, todo_id, new_status)
            IN /\ todos' = [todos EXCEPT ![todo_id].status = new_status]
               /\ leaderboard' =
                     IF Qualifies(todo_id, new_status)
                     THEN update_leaderboard_points(leaderboard, student_id,
                                                    points_awarded)
                     ELSE leaderboard
               /\ last' = [Response("updateStudent", 200, "ok") EXCEPT
                              !.tid = todo_id,
                              !.prev = todos[todo_id].status,
                              !.req = new_status,
                              !.scored = Qualifies(todo_id, new_status),
                              !.points = points_awarded]
               /\ UNCHANGED <<now, enrolled, anns, nextAnnId, nextTodoId, probe,
                            inflight, sweeper, expired_quizzes>>

\* update_student_task_status
update_student_task_status(actor, student_id, todo_id, new_status) ==
    LET outcome == StudentUpdateOutcome(actor, student_id, todo_id, new_status)
    IN IF outcome # "ok"
       THEN Rejected("updateStudent", CodeOf(outcome), outcome,
                     IF outcome \in {"quiz", "completed"} THEN todo_id ELSE 0)
       ELSE LET points_awarded == PointsAwarded(student_id, todo_id, new_status)
            IN /\ todos' = [todos EXCEPT ![todo_id].status = new_status]
               /\ leaderboard' =
                     IF points_awarded > 0
                     THEN update_leaderboard_points(leaderboard, student_id,
                                                    points_awarded)
                     ELSE leaderboard
               /\ last' = [Response("updateStudent", 200, "ok") EXCEPT
                              !.tid = todo_id,
                              !.prev = todos[todo_id].status,
                              !.req = new_status,
                              !.scored = Qualifies(todo_id, new_status),
                              !.points = points_awarded]
               /\ UNCHANGED <<now, enrolled, anns, nextAnnId, nextTodoId, probe, inflight, sweeper, expired_quizzes>>

\* the checks of update_faculty_task_status, in the order of the code
FacultyUpdateOutcome(actor, faculty_id, todo_id, new_status) ==
    IF actor # faculty_id THEN "own"
    ELSE IF ~(todo_id \in DOMAIN todos /\ todos[todo_id].user_id = faculty_id)
    THEN "notfound"
    ELSE IF new_status \notin Statuses THEN "invalid"
    ELSE "ok"

\* a check task only when the task is marked completed
SpawnsCheck_CompletedOnly(todo_id, new_status) ==
    /\ AnnouncementType(todo_id) \in {"quiz", "assignment"}
    /\ new_status = "completed"

\* the condition under which update_faculty_task_status inserts a check task
SpawnsCheck(todo_id, new_status) ==
    /\ AnnouncementType(todo_id) \in {"quiz", "assignment"}
    /\ new_status \in {"completed", "delayed"}

\* INSERT ... VALUES ($1, f"Check {title}", 'pending', NULL, NULL)
CheckTask(faculty_id, todo_id) ==
    NewTodo(faculty_id, "Check " \o todos[todo_id].title, NoTime, NoAnn)

\* update_faculty_task_status with the UPDATE committed on its own: when
\* the INSERT of the check task fails the new status stays
update_faculty_task_status_NoTransaction(actor, faculty_id, todo_id, new_status, failed) ==
    LET outcome == FacultyUpdateOutcome(actor, faculty_id, todo_id, new_status)
    IN IF outcome # "ok"
       THEN Rejected("updateFaculty", CodeOf(outcome), outcome, 0)
       ELSE IF failed
       THEN /\ todos' = IF SpawnsCheck(todo_id, new_status)
                        THEN [todos EXCEPT ![todo_id].status = new_status]
                        ELSE todos
            /\ last' = [Response("updateFaculty", 500, "store") EXCEPT
                           !.tid = todo_id,
                           !.prev = todos[todo_id].status,
                           !.req = new_status]
            /\ UNCHANGED <<now, enrolled, anns, nextAnnId, nextTodoId, leaderboard, probe, inflight, sweeper, expired_quizzes>>
       ELSE /\ SpawnsCheck(todo_id, new_status) => nextTodoId <= MaxTodoId
            /\ IF SpawnsCheck(todo_id, new_status)
               THEN /\ todos' = Merge([todos EXCEPT ![todo_id].status = new_status],
                                      [t \in {nextTodoId} |->
                                          CheckTask(faculty_id, todo_id)])
                    /\ nextTodoId' = nextTodoId + 1
               ELSE /\ todos' = [todos EXCEPT ![todo_id].status = new_status]
                    /\ UNCHANGED nextTodoId
            /\ last' = [Response("updateFaculty", 200, "ok") EXCEPT
                           !.tid = todo_id,
                           !.prev = todos[todo_id].status,
                           !.req = new_status,
                           !.created = IF SpawnsCheck(todo_id, new_status)
                                       THEN nextTodoId ELSE 0]
            /\ UNCHANGED <<now, enrolled, anns, nextAnnId, leaderboard, probe, inflight, sweeper, expired_quizzes>>

\* update_faculty_task_status: the UPDATE and the INSERT of the check task
\* run inside one transaction; 'failed' is a statement of the transaction
\* raising (the store refusing the UPDATE or the INSERT): the transaction is
\* rolled back and the handler answers 500
update_faculty_task_status(actor, faculty_id, todo_id, new_status, failed) ==
    LET outcome == FacultyUpdateOutcome(actor, faculty_id, todo_id, new_status)
    IN IF outcome # "ok"
       THEN Rejected("updateFaculty", CodeOf(outcome), outcome, 0)
       ELSE IF failed
       THEN /\ last' = [Response("updateFaculty", 500, "store") EXCEPT
                           !.tid = todo_id,
                           !.prev = todos[todo_id].status,
                           !.req = new_status]
            /\ UNCHANGED <<now, enrolled, anns, nextAnnId, todos, nextTodoId, leaderboard, probe, inflight, sweeper, expired_quizzes>>
       ELSE /\ SpawnsCheck(todo_id, new_status) => nextTodoId <= MaxTodoId
            /\ IF SpawnsCheck(todo_id, new_status)
               THEN /\ todos' = Merge([todos EXCEPT ![todo_id].status = new_status],
                                      [t \in {nextTodoId} |->
                                          CheckTask(faculty_id, todo_id)])
                    /\ nextTodoId' = nextTodoId + 1
               ELSE /\ todos' = [todos EXCEPT ![todo_id].status = new_status]
                    /\ UNCHANGED nextTodoId
            /\ last' = [Response("updateFaculty", 200, "ok") EXCEPT
                           !.tid = todo_id,
                           !.prev = todos[todo_id].status,
                           !.req = new_status,
                           !.created = IF SpawnsCheck(todo_id, new_status)
                                       THEN nextTodoId ELSE 0]
            /\ UNCHANGED <<now, enrolled, anns, nextAnnId, leaderboard, probe, inflight, sweeper, expired_quizzes>>

\* ------------------------------------------------------ deadline sweep
\* expired_quiz_sql without "AND t.status = 'pending'"
ExpiredQuizzes_AnyStatus ==
    {t \in DOMAIN todos :
        /\ todos[t].related_announcement \in DOMAIN anns
        /\ anns[todos[t].related_announcement].type = "quiz"
        /\ anns[todos[t].related_announcement].deadline # NoTime
        /\ anns[todos[t].related_announcement].deadline < now}

\* the rows selected by expired_quiz_sql
ExpiredQuizzes ==
    {t \in DOMAIN todos :
        /\ todos[t].related_announcement \in DOMAIN anns
        /\ anns[todos[t].related_announcement].type = "quiz"
        /\ todos[t].status = "pending"
        /\ anns[todos[t].related_announcement].deadline # NoTime
        /\ anns[todos[t].related_announcement].deadline < now}

\* a loop without the two handlers: the failure ends the task
background_quiz_updater_Unguarded(failed) ==
    IF failed THEN "stopped" ELSE "running"

\* background_quiz_updater after a cycle: auto_update_quiz_statuses catches
\* every exception and returns, the loop catches what is left, sleeps and
\* goes on
background_quiz_updater(failed) == "running"

\* a sweep that updates the first fetched row only
auto_update_quiz_statuses_FirstRowOnly(failed, updated) ==
    /\ sweeper = "running"
    /\ updated \subseteq ExpiredQuizzes
    /\ Cardinality(updated) <= 1
    /\ ~failed /\ ExpiredQuizzes # {} => updated # {}
    /\ todos' = [t \in DOMAIN todos |->
                    IF t \in updated THEN [todos[t] EXCEPT !.status = "completed"]
                    ELSE todos[t]]
    /\ last' = [Response("sweep", IF failed THEN 500 ELSE 200,
                         IF failed THEN "store" ELSE "ok")
                  EXCEPT !.count = Cardinality(updated),
                         !.repeat = (last.op = "sweep" /\ last.code = 200)]
    /\ sweeper' = background_quiz_updater(failed)
    /\ UNCHANGED <<now, enrolled, anns, nextAnnId, nextTodoId, leaderboard, probe, inflight,
                 expired_quizzes>>

\* a sweep that leaves a check task for a faculty-owned row it completes, as
\* update_faculty_task_status does
auto_update_quiz_statuses_WithCheck(failed, updated) ==
    LET swept == [t \in DOMAIN todos |->
                    IF t \in updated THEN [todos[t] EXCEPT !.status = "completed"]
                    ELSE todos[t]]
        owned == {t \in updated : todos[t].user_id \in Faculty}
    IN /\ sweeper = "running"
       /\ updated \subseteq ExpiredQuizzes
       /\ ~failed => updated = ExpiredQuizzes
       /\ IF owned # {} /\ nextTodoId <= MaxTodoId
          THEN /\ todos' = Merge(swept, [t \in {nextTodoId} |->
                                 CheckTask(todos[CHOOSE o \in owned : TRUE].user_id,
                                           CHOOSE o \in owned : TRUE)])
               /\ nextTodoId' = nextTodoId + 1
          ELSE /\ todos' = swept
               /\ UNCHANGED nextTodoId
       /\ last' = [Response("sweep", IF failed THEN 500 ELSE 200,
                            IF failed THEN "store" ELSE "ok")
                     EXCEPT !.count = Cardinality(updated),
                            !.repeat = (last.op = "sweep" /\ last.code = 200)]
       /\ sweeper' = background_quiz_updater(failed)
       /\ UNCHANGED <<now, enrolled, anns, nextAnnId, leaderboard, probe, inflight,
                 expired_quizzes>>

\* auto_update_quiz_statuses: the rows are updated one statement at a time
\* outside any transaction, so a store failure leaves the rows of updated
\* completed and the others as they were
auto_update_quiz_statuses(failed, updated) ==
    /\ sweeper = "running"
    /\ updated \subseteq ExpiredQuizzes
    /\ ~failed => updated = ExpiredQuizzes
    /\ todos' = [t \in DOMAIN todos |->
                    IF t \in updated THEN [todos[t] EXCEPT !.status = "completed"]
                    ELSE todos[t]]
    /\ last' = [Response("sweep", IF failed THEN 500 ELSE 200,
                         IF failed THEN "store" ELSE "ok")
                  EXCEPT !.count = Cardinality(updated),
                         !.repeat = (last.op = "sweep" /\ last.code = 200)]
    /\ sweeper' = background_quiz_updater(failed)
    /\ UNCHANGED <<now, enrolled, anns, nextAnnId, nextTodoId, leaderboard, probe, inflight,
                 expired_quizzes>>

\* ---------------------------------------------------------------- next
DueDates == {NoTime}

Next ==
    \/ \E t \in Instants : Tick(t)
    \/ \E s \in Students : assign_student_to_section(s)
    \/ \E f \in Faculty, type \in AnnTypes, title \in AnnTitles,
          deadline \in Deadlines \cup {NoTime}, order \in Orderings(enrolled) :
            create_announcement_for_section(f, type, title, deadline, order)
    \/ \E f \in Faculty, id \in 1..MaxAnn, type \in AnnTypes, title \in AnnTitles,
          deadline \in Deadlines \cup {NoTime}, order \in Orderings(enrolled) :
            update_announcement(f, id, type, title, deadline, order)
    \/ \E f \in Faculty, id \in 1..MaxAnn : delete_announcement(f, id)
    \/ \E a, s \in Students, title \in TaskTitles, due \in DueDates :
            create_student_task(a, s, title, due)
    \/ \E a, f \in Faculty, title \in TaskTitles, due \in DueDates :
            create_faculty_task(a, f, title, due)
    \/ \E a, s \in Students, t \in 1..MaxTodoId, st \in ReqStatuses :
            update_student_task_status(a, s, t, st)
    \/ \E a, f \in Faculty, t \in 1..MaxTodoId, st \in ReqStatuses,
          failed \in BOOLEAN :
            update_faculty_task_status(a, f, t, st, failed)
    \/ \E failed \in BOOLEAN, updated \in SUBSET ExpiredQuizzes :
            auto_update_quiz_statuses(failed, updated)

Spec == Init /\ [][Next]_vars

\* the loop of background_quiz_updater starts a cycle again and again, and
\* the store does not fail forever: a cycle without store failure is taken
\* whenever it stays possible
SuccessfulSweep == auto_update_quiz_statuses(FALSE, ExpiredQuizzes)

\* the operations that touch tasks linked to announcements; tasks without
\* announcement are never selected by the sweep
LiveNext ==
    \/ \E t \in Instants : Tick(t)
    \/ \E s \in Students : assign_student_to_section(s)
    \/ \E f \in Faculty, type \in AnnTypes, title \in AnnTitles,
          deadline \in Deadlines \cup {NoTime}, order \in Orderings(enrolled) :
            create_announcement_for_section(f, type, title, deadline, order)
    \/ \E f \in Faculty, id \in 1..MaxAnn, type \in AnnTypes, title \in AnnTitles,
          deadline \in Deadlines \cup {NoTime}, order \in Orderings(enrolled) :
            update_announcement(f, id, type, title, deadline, order)
    \/ \E f \in Faculty, id \in 1..MaxAnn : delete_announcement(f, id)
    \/ \E a, s \in Students, t \in 1..MaxTodoId, st \in ReqStatuses :
            update_student_task_status(a, s, t, st)
    \/ \E a, f \in Faculty, t \in 1..MaxTodoId, st \in ReqStatuses,
          failed \in BOOLEAN :
            update_faculty_task_status(a, f, t, st, failed)
    \/ \E failed \in BOOLEAN, updated \in SUBSET ExpiredQuizzes :
            auto_update_quiz_statuses(failed, updated)

SpecLive == Init /\ [][LiveNext]_vars /\ WF_vars(SuccessfulSweep)

\* ------------------------------------------------------ scoring probe
\* calculate_assignment_points and calculate_competitive_bonus called on
\* their own: the leaderboard rows of the course as the query returns them
\* (ORDER BY total_points DESC, ties in any order) and the signed distance
\* of the completion time from the deadline
ProbeHours == (0 - Hours(25))..Hours(11)
ProbeTotals == {Pts(100), Pts(200), Pts(272), Pts(400)}
ProbeStudent == "s1"

SortedDesc(seq) == \A i \in 1..(Len(seq) - 1) : seq[i] >= seq[i + 1]

OthersChoices ==
    UNION {{o \in [1..k -> ProbeTotals] : SortedDesc(o)} : k \in 0..MaxOthers}

\* the student's row put at position pos among the other rows
RowsWith(others, current, pos) ==
    [i \in 1..(Len(others) + 1) |->
        IF i < pos THEN [student_id |-> "other", total_points |-> others[i]]
        ELSE IF i = pos THEN [student_id |-> ProbeStudent, total_points |-> current]
        ELSE [student_id |-> "other", total_points |-> others[i - 1]]]

RowTotals(rows) == [i \in 1..Len(rows) |-> rows[i].total_points]

ScoreInit ==
    /\ now = Hours(15)
    /\ enrolled = {}
    /\ anns = << >>
    /\ nextAnnId = 1
    /\ todos = << >>
    /\ nextTodoId = 1
    /\ leaderboard = << >>
    /\ last = NoRequest
    /\ inflight = NoInflight
    /\ sweeper = "running"
    /\ expired_quizzes = NoSweep
    /\ \E h \in ProbeHours, current \in ProbeTotals, others \in OthersChoices,
          pos \in 1..(MaxOthers + 1) :
            /\ pos <= Len(others) + 1
            /\ SortedDesc(RowTotals(RowsWith(others, current, pos)))
            /\ probe = [NoProbe EXCEPT !.stage = "called", !.student = ProbeStudent,
                           !.rows = RowsWith(others, current, pos),
                           !.hours_diff = h]

\* the call returns
Score ==
    /\ probe.stage = "called"
    /\ probe' = [probe EXCEPT
          !.stage = "returned",
          !.assignment_points = AssignmentPointsOf(probe.hours_diff),
          !.new_rank = Competitive(probe.rows, probe.student,
                                   AssignmentPointsOf(probe.hours_diff)).rank,
          !.competitive_bonus =
              calculate_competitive_bonus(probe.rows, probe.student,
                                          AssignmentPointsOf(probe.hours_diff)),
          !.final_points =
              calculate_assignment_points(probe.rows, probe.student,
                                          0, probe.hours_diff)]
    /\ UNCHANGED <<now, enrolled, anns, nextAnnId, todos, nextTodoId, leaderboard, last,
                 inflight, sweeper, expired_quizzes>>

ScoreNext == Score

SpecScore == ScoreInit /\ [][ScoreNext]_vars

\* ------------------------------------------- status update, by statement
\* update_student_task_status as the store sees it: the handler runs on a
\* pooled connection outside any transaction, so each statement it awaits
\* (the SELECT of the task, the UPDATE of "Todo", the SELECT of the totals,
\* the UPDATE of "Leaderboard") is committed on its own and other requests
\* run between them.  failed is a store failure in the awaited statement.

\* the row fetched by task_sql
TaskRecord(todo_id) ==
    [status |-> todos[todo_id].status,
     due_date |-> todos[todo_id].due_date,
     announcement_type |-> AnnouncementType(todo_id),
     announcement_deadline |-> AnnouncementDeadline(todo_id),
     course_code |-> TaskCourseCode(todo_id)]

\* the scoring condition, on the fetched row
QualifiesRecord(task_record, new_status) ==
    /\ new_status = "completed"
    /\ task_record.announcement_type = "assignment"
    /\ task_record.course_code # None
    /\ (task_record.announcement_deadline # NoTime \/ task_record.due_date # NoTime)

TaskDeadlineRecord(task_record) ==
    IF task_record.announcement_deadline # NoTime
    THEN task_record.announcement_deadline
    ELSE MidnightOf(task_record.due_date)

\* the response is built from updated_record: when the UPDATE matched no row
\* it is None and the subscript raises inside the try block
Returned(r) ==
    IF r.updated_record = "row"
    THEN [r EXCEPT !.pc = "done", !.code = 200, !.detail = "ok"]
    ELSE [r EXCEPT !.pc = "done", !.code = 500, !.detail = "norow"]

StoreError(r) == [r EXCEPT !.pc = "done", !.code = 500, !.detail = "store"]

\* the actor check, task_sql and the validations that follow it
fetch_task_record(p, actor, student_id, todo_id, new_status, failed) ==
    LET outcome == StudentUpdateOutcome(actor, student_id, todo_id, new_status)
    IN /\ inflight[p].pc = "idle"
       /\ inflight' = [inflight EXCEPT ![p] =
             IF actor # student_id
             THEN [Idle EXCEPT !.pc = "done", !.code = 403, !.detail = "own"]
             ELSE IF failed THEN StoreError(Idle)
             ELSE IF outcome # "ok"
             THEN [Idle EXCEPT !.pc = "done", !.code = CodeOf(outcome),
                               !.detail = outcome]
             ELSE [Idle EXCEPT !.pc = "update", !.student_id = student_id,
                               !.todo_id = todo_id, !.new_status = new_status,
                               !.task_record = TaskRecord(todo_id)]]
       /\ UNCHANGED <<now, enrolled, anns, nextAnnId, todos, nextTodoId,
                    leaderboard, last, probe, sweeper, expired_quizzes>>

\* UPDATE "Todo" SET status = $1 WHERE user_id = $2 AND todo_id = $3
write_status(p, failed) ==
    LET r == inflight[p]
        matched == r.todo_id \in DOMAIN todos /\ todos[r.todo_id].user_id = r.student_id
        written == [r EXCEPT !.updated_record = IF matched THEN "row" ELSE "none"]
    IN /\ r.pc = "update"
       /\ IF failed
          THEN /\ inflight' = [inflight EXCEPT ![p] = StoreError(r)]
               /\ UNCHANGED todos
          ELSE /\ todos' = IF matched
                           THEN [todos EXCEPT ![r.todo_id].status = r.new_status]
                           ELSE todos
               /\ inflight' = [inflight EXCEPT ![p] =
                     IF QualifiesRecord(r.task_record, r.new_status)
                     THEN [written EXCEPT !.pc = "score"]
                     ELSE Returned(written)]
       /\ UNCHANGED <<now, enrolled, anns, nextAnnId, nextTodoId, leaderboard,
                    last, probe, sweeper, expired_quizzes>>

\* calculate_assignment_points: completion_time is read, then the totals of
\* the course are fetched by calculate_competitive_bonus
read_peer_totals(p, failed) ==
    LET r == inflight[p]
        points_awarded ==
            calculate_assignment_points(LeaderboardRows(leaderboard), r.student_id,
                                        TaskDeadlineRecord(r.task_record), now)
    IN /\ r.pc = "score"
       /\ inflight' = [inflight EXCEPT ![p] =
             IF failed THEN StoreError(r)
             ELSE IF points_awarded > 0
             THEN [r EXCEPT !.pc = "award", !.points_awarded = points_awarded]
             ELSE Returned(r)]
       /\ UNCHANGED <<now, enrolled, anns, nextAnnId, todos, nextTodoId,
                    leaderboard, last, probe, sweeper, expired_quizzes>>

\* update_leaderboard_points, then the response
write_award(p, failed) ==
    LET r == inflight[p]
    IN /\ r.pc = "award"
       /\ IF failed
          THEN /\ inflight' = [inflight EXCEPT ![p] = StoreError(r)]
               /\ UNCHANGED leaderboard
          ELSE /\ leaderboard' = update_leaderboard_points(leaderboard, r.student_id,
                                                           r.points_awarded)
               /\ inflight' = [inflight EXCEPT ![p] =
                     Returned([r EXCEPT !.awarded = r.student_id \in DOMAIN leaderboard])]
       /\ UNCHANGED <<now, enrolled, anns, nextAnnId, todos, nextTodoId, last, probe, sweeper, expired_quizzes>>

\* the section after both students enrolled and the faculty member posted
\* two assignments; with peer_done the second student has already completed
\* the first one at instant `at'
TwoAssignments(f, title, deadline) ==
    [i \in 1..2 |-> [title |-> title, type |-> "assignment", deadline |-> deadline,
                     faculty_id |-> f, section_course_code |-> CourseCode]]

TodosOfTwo(order, f, title, deadline) ==
    Merge(TodosForAnnouncement(order, f, "assignment", title, deadline, 1, 1),
          TodosForAnnouncement(order, f, "assignment", title, deadline, 2,
                               Len(order) + 2))

BoardOfTwo == InitializeEntry(InitializeEntry(<< >>, "s1"), "s2")

FirstTaskOf(order, s) == CHOOSE t \in 1..Len(order) : order[t] = s

StepsInit ==
    /\ now = Hours(15)
    /\ enrolled = Students
    /\ nextAnnId = 3
    /\ last = NoRequest
    /\ probe = NoProbe
    /\ inflight = NoInflight
    /\ sweeper = "running"
    /\ expired_quizzes = NoSweep
    /\ \E order \in Orderings(Students), f \in Faculty, title \in AnnTitles,
          deadline \in Deadlines, peer_done \in BOOLEAN :
            /\ anns = TwoAssignments(f, title, deadline)
            /\ nextTodoId = 2 * Len(order) + 3
            /\ todos = IF peer_done
                       THEN [TodosOfTwo(order, f, title, deadline) EXCEPT
                                ![FirstTaskOf(order, "s2")].status = "completed"]
                       ELSE TodosOfTwo(order, f, title, deadline)
            /\ leaderboard =
                  IF peer_done
                  THEN update_leaderboard_points(BoardOfTwo, "s2",
                           calculate_assignment_points(LeaderboardRows(BoardOfTwo),
                                                       "s2", deadline, now))
                  ELSE BoardOfTwo

StepsNext ==
    \/ \E p \in Requests, a, s \in Students, t \in 1..(nextTodoId - 1),
          st \in ReqStatuses, failed \in BOOLEAN :
            fetch_task_record(p, a, s, t, st, failed)
    \/ \E p \in Requests, failed \in BOOLEAN : write_status(p, failed)
    \/ \E p \in Requests, failed \in BOOLEAN : read_peer_totals(p, failed)
    \/ \E p \in Requests, failed \in BOOLEAN : write_award(p, failed)
    \/ \E f \in Faculty, id \in 1..2 : delete_announcement(f, id)

SpecSteps == StepsInit /\ [][StepsNext]_vars

\* -------------------------------------------- deadline sweep, by statement
\* auto_update_quiz_statuses as the store sees it: the SELECT and each UPDATE
\* of the loop are awaited outside any transaction, so each is committed on
\* its own and the request handlers run between them.  failed is a store
\* failure in the awaited statement: the exception ends the cycle.

\* expired_quizzes = await conn.fetch(expired_quiz_sql)
fetch_expired_quizzes(failed) ==
    /\ sweeper = "running"
    /\ expired_quizzes.pc = "idle"
    /\ expired_quizzes' =
          IF failed \/ ExpiredQuizzes = {} THEN NoSweep
          ELSE [pc |-> "update",
                rows |-> {<<t, todos[t].user_id>> : t \in ExpiredQuizzes}]
    /\ last' = [Response("sweepScan", IF failed THEN 500 ELSE 200,
                         IF failed THEN "store" ELSE "ok")
                  EXCEPT !.count = IF failed THEN 0 ELSE Cardinality(ExpiredQuizzes)]
    /\ sweeper' = background_quiz_updater(failed)
    /\ UNCHANGED <<now, enrolled, anns, nextAnnId, todos, nextTodoId, leaderboard,
                 probe, inflight>>

\* UPDATE "Todo" SET status = 'completed' WHERE todo_id = $2 AND user_id = $3
\* for one fetched row; last names the row the statement changed and the
\* status it had
update_expired_quiz(quiz, failed) ==
    LET matched == quiz[1] \in DOMAIN todos /\ todos[quiz[1]].user_id = quiz[2]
        rest == expired_quizzes.rows \ {quiz}
    IN /\ expired_quizzes.pc = "update"
       /\ quiz \in expired_quizzes.rows
       /\ IF failed
          THEN /\ UNCHANGED todos
               /\ expired_quizzes' = NoSweep
               /\ last' = Response("sweepWrite", 500, "store")
          ELSE /\ todos' = IF matched
                           THEN [todos EXCEPT ![quiz[1]].status = "completed"]
                           ELSE todos
               /\ expired_quizzes' =
                     IF rest = {} THEN NoSweep ELSE [pc |-> "update", rows |-> rest]
               /\ last' = IF matched
                          THEN [Response("sweepWrite", 200, "ok") EXCEPT
                                   !.tid = quiz[1], !.prev = todos[quiz[1]].status]
                          ELSE Response("sweepWrite", 200, "ok")
       /\ sweeper' = background_quiz_updater(failed)
       /\ UNCHANGED <<now, enrolled, anns, nextAnnId, nextTodoId, leaderboard,
                    probe, inflight>>

SweepNext ==
    \/ \E t \in Instants : Tick(t)
    \/ \E s \in Students : assign_student_to_section(s)
    \/ \E f \in Faculty, type \in AnnTypes, title \in AnnTitles,
          deadline \in Deadlines \cup {NoTime}, order \in Orderings(enrolled) :
            create_announcement_for_section(f, type, title, deadline, order)
    \/ \E f \in Faculty, id \in 1..MaxAnn, type \in AnnTypes, title \in AnnTitles,
          deadline \in Deadlines \cup {NoTime}, order \in Orderings(enrolled) :
            update_announcement(f, id, type, title, deadline, order)
    \/ \E f \in Faculty, id \in 1..MaxAnn : delete_announcement(f, id)
    \/ \E a, s \in Students, t \in 1..MaxTodoId, st \in ReqStatuses :
            update_student_task_status(a, s, t, st)
    \/ \E a, f \in Faculty, t \in 1..MaxTodoId, st \in ReqStatuses,
          failed \in BOOLEAN :
            update_faculty_task_status(a, f, t, st, failed)
    \/ \E failed \in BOOLEAN : fetch_expired_quizzes(failed)
    \/ \E quiz \in (1..MaxTodoId) \X (Students \cup Faculty), failed \in BOOLEAN :
            update_expired_quiz(quiz, failed)

SpecSweep == Init /\ [][SweepNext]_vars

\* ---------------------------------------------------------- leaderboard
\* "User".name
UserName(s) ==
    CASE s = "s1" -> "Alice"
      [] s = "s2" -> "Bob"
      [] OTHER -> "Carol"

\* the name stored by toggle_leaderboard_anonymity: NULL when anonymity is
\* switched off, otherwise the preferred name or the default
AnonymousNameFor(s, is_anonymous) ==
    IF ~is_anonymous THEN None
    ELSE IF PreferredAnonymousName(s) \in {None, ""} THEN "Anonymous Student"
    ELSE PreferredAnonymousName(s)

\* the preferred name stored as it is, without the default
toggle_leaderboard_anonymity_NoDefault(actor, student_id, is_anonymous) ==
    IF actor # student_id \/ student_id \notin enrolled
          \/ student_id \notin DOMAIN leaderboard
    THEN /\ last' = Response("setAnonymity", IF actor # student_id THEN 403 ELSE 404,
                             IF actor # student_id THEN "own" ELSE "notfound")
         /\ UNCHANGED <<now, enrolled, anns, nextAnnId, todos, nextTodoId,
                      leaderboard, probe, inflight, sweeper, expired_quizzes>>
    ELSE /\ leaderboard' = [leaderboard EXCEPT
                               ![student_id].is_anonymous = is_anonymous,
                               ![student_id].anonymous_name =
                                   IF is_anonymous THEN PreferredAnonymousName(student_id)
                                   ELSE None,
                               ![student_id].last_updated = now]
         /\ last' = Response("setAnonymity", 200, "ok")
         /\ UNCHANGED <<now, enrolled, anns, nextAnnId, todos, nextTodoId, probe,
                      inflight, sweeper, expired_quizzes>>

\* toggle_leaderboard_anonymity: 403 for another student's entry, 404 for a
\* student who is not enrolled or has no entry, otherwise one UPDATE that
\* sets is_anonymous, anonymous_name and last_updated
toggle_leaderboard_anonymity(actor, student_id, is_anonymous) ==
    IF actor # student_id \/ student_id \notin enrolled
          \/ student_id \notin DOMAIN leaderboard
    THEN /\ last' = Response("setAnonymity", IF actor # student_id THEN 403 ELSE 404,
                             IF actor # student_id THEN "own" ELSE "notfound")
         /\ UNCHANGED <<now, enrolled, anns, nextAnnId, todos, nextTodoId,
                      leaderboard, probe, inflight, sweeper, expired_quizzes>>
    ELSE /\ leaderboard' = [leaderboard EXCEPT
                               ![student_id].is_anonymous = is_anonymous,
                               ![student_id].anonymous_name =
                                   AnonymousNameFor(student_id, is_anonymous),
                               ![student_id].last_updated = now]
         /\ last' = Response("setAnonymity", 200, "ok")
         /\ UNCHANGED <<now, enrolled, anns, nextAnnId, todos, nextTodoId, probe,
                      inflight, sweeper, expired_quizzes>>

\* get_course_leaderboard: CASE WHEN l.is_anonymous THEN l.anonymous_name
\* ELSE u.name END
DisplayName(lb, s) ==
    IF lb[s].is_anonymous THEN lb[s].anonymous_name ELSE UserName(s)

\* ORDER BY l.total_points DESC, l.last_updated ASC: x is returned before y
\* in every result of the query
ReturnedBefore(lb, x, y) ==
    \/ lb[x].total_points > lb[y].total_points
    \/ /\ lb[x].total_points = lb[y].total_points
       /\ lb[x].last_updated < lb[y].last_updated

\* the students of the section and the clock readings of the leaderboard
\* specification
BoardStudents == Students \cup {"s3"}
BoardInstants == {Hours(15), Hours(20), Hours(36)}

\* the order in which the rows of a set are fetched (one of them)
RECURSIVE SomeOrder(_)
SomeOrder(S) ==
    IF S = {} THEN << >>
    ELSE LET x == CHOOSE x \in S : TRUE IN <<x>> \o SomeOrder(S \ {x})

RECURSIVE BoardOf(_)
BoardOf(order) ==
    IF order = << >> THEN << >>
    ELSE InitializeEntry(BoardOf(Tail(order)), Head(order))

\* the section after the students of E enrolled and the faculty member
\* posted one assignment
BoardInit ==
    /\ now = Hours(15)
    /\ nextAnnId = 2
    /\ last = NoRequest
    /\ probe = NoProbe
    /\ inflight = NoInflight
    /\ sweeper = "running"
    /\ expired_quizzes = NoSweep
    /\ \E E \in SUBSET BoardStudents, f \in Faculty, title \in AnnTitles,
          deadline \in Deadlines :
            /\ enrolled = E
            /\ leaderboard = BoardOf(SomeOrder(E))
            /\ anns = [i \in {1} |->
                         [title |-> title, type |-> "assignment", deadline |-> deadline,
                          faculty_id |-> f, section_course_code |-> CourseCode]]
            /\ todos = TodosForAnnouncement(SomeOrder(E), f, "assignment", title,
                                            deadline, 1, 1)
            /\ nextTodoId = Cardinality(E) + 2

BoardNext ==
    \/ \E t \in BoardInstants : Tick(t)
    \/ \E s \in BoardStudents : assign_student_to_section(s)
    \/ \E s \in BoardStudents, t \in DOMAIN todos, st \in {"completed", "archived"} :
            update_student_task_status(s, s, t, st)
    \/ \E a, s \in BoardStudents, flag \in BOOLEAN :
            toggle_leaderboard_anonymity(a, s, flag)

SpecBoard == BoardInit /\ [][BoardNext]_vars

\* =============================================================== claims
IsQuizTask(t) ==
    /\ todos[t].related_announcement \in DOMAIN anns
    /\ anns[todos[t].related_announcement].type = "quiz"

IsAssignmentTask(t) ==
    /\ todos[t].related_announcement \in DOMAIN anns
    /\ anns[todos[t].related_announcement].type = "assignment"

ManualUpdate(op) == op \in {"updateStudent", "updateFaculty"}

\* C1 (as stated): a manual status update of a task linked to a quiz
\* announcement, whoever owns it, is answered with 403 Forbidden.
C1_QuizForbiddenForAnyOwner ==
    [][\A t \in DOMAIN todos :
          IsQuizTask(t) /\ ManualUpdate(last'.op) /\ last'.tid = t
              => last'.code = 403]_vars

\* C1 (amended): for every student-owned task linked to a quiz announcement,
\* in every current status, every request of its owner for pending, completed
\* or delayed is answered with 403 Forbidden, and no student status update
\* changes the task.
C1_StudentQuizForbidden ==
    [][\A t \in DOMAIN todos :
          IsQuizTask(t) /\ todos[t].user_id \in Students
              => /\ \A st \in Statuses :
                       LET o == StudentUpdateOutcome(todos[t].user_id,
                                                     todos[t].user_id, t, st)
                       IN o = "quiz" /\ CodeOf(o) = 403
                 /\ last'.op = "updateStudent"
                       => t \in DOMAIN todos' /\ todos'[t] = todos[t]
                 /\ last'.op = "updateStudent" /\ last'.tid = t
                       => last'.code = 403 /\ last'.detail = "quiz"]_vars

\* a student's request on a quiz task that the sweeper had completed was
\* answered with 403
C1_Witness ==
    /\ last.op = "updateStudent" /\ last.code = 403 /\ last.detail = "quiz"
    /\ last.tid \in DOMAIN todos
    /\ IsQuizTask(last.tid)
    /\ todos[last.tid].user_id \in Students
    /\ todos[last.tid].status = "completed"

\* C2 (as stated): once a task linked to an assignment announcement is
\* completed, whoever owns it, every manual update of it is answered with 403
\* and its status stays completed.
C2_CompletedAssignmentFrozenForAnyOwner ==
    [][\A t \in DOMAIN todos :
          IsAssignmentTask(t) /\ todos[t].status = "completed"
             /\ ManualUpdate(last'.op)
              => /\ last'.tid = t => last'.code = 403
                 /\ t \in DOMAIN todos' /\ todos'[t].status = "completed"]_vars

\* C2 (amended): once a student-owned task linked to an assignment
\* announcement is completed, every request of its owner (pending, delayed or
\* completed) is answered with 403 Forbidden, and its status stays completed
\* over every manual status update.
C2_StudentCompletedAssignmentFrozen ==
    [][\A t \in DOMAIN todos :
          IsAssignmentTask(t) /\ todos[t].status = "completed"
             /\ todos[t].user_id \in Students
              => /\ \A st \in Statuses :
                       LET o == StudentUpdateOutcome(todos[t].user_id,
                                                     todos[t].user_id, t, st)
                       IN o = "completed" /\ CodeOf(o) = 403
                 /\ ManualUpdate(last'.op)
                       => t \in DOMAIN todos' /\ todos'[t] = todos[t]
                 /\ last'.op = "updateStudent" /\ last'.tid = t
                       => last'.code = 403 /\ last'.detail = "completed"]_vars

\* a student's request on their completed assignment task was answered
\* with 403
C2_Witness ==
    /\ last.op = "updateStudent" /\ last.code = 403 /\ last.detail = "completed"
    /\ last.tid \in DOMAIN todos
    /\ IsAssignmentTask(last.tid)
    /\ todos[last.tid].user_id \in Students
    /\ todos[last.tid].status = "completed"

\* the rows a sweep at this moment has to complete: linked to a quiz
\* announcement, pending, deadline strictly before the clock
C3_Due(t) ==
    /\ IsQuizTask(t)
    /\ todos[t].status = "pending"
    /\ anns[todos[t].related_announcement].deadline # NoTime
    /\ now > anns[todos[t].related_announcement].deadline

\* C3: a sweep that runs without store failure leaves every task that was a
\* pending quiz task with an expired deadline at scan time completed.
C3_SweepCompletesExpiredQuizzes ==
    [][last'.op = "sweep" /\ last'.code = 200
          => \A t \in DOMAIN todos :
                C3_Due(t) => t \in DOMAIN todos' /\ todos'[t].status = "completed"]_vars

\* a sweep ran to its end and completed two tasks
C3_Witness ==
    /\ last.op = "sweep" /\ last.code = 200 /\ last.count = 2
    /\ \A t \in DOMAIN todos : ~C3_Due(t)
    /\ \E t \in DOMAIN todos : IsQuizTask(t) /\ todos[t].status = "completed"

\* C4: a sweep that directly follows a sweep that ran to its end, with no
\* time elapsed, updates no row and leaves the store as the first left it.
C4_SecondSweepIdempotent ==
    [][last.op = "sweep" /\ last.code = 200 /\ last'.op = "sweep"
          => /\ now' = now
             /\ last'.count = 0
             /\ todos' = todos /\ anns' = anns /\ leaderboard' = leaderboard
             /\ enrolled' = enrolled /\ nextTodoId' = nextTodoId
             /\ nextAnnId' = nextAnnId]_vars

\* a second sweep found nothing to do although a quiz task with an expired
\* deadline is in the store, completed by the first
C4_Witness ==
    /\ last.op = "sweep" /\ last.repeat /\ last.count = 0
    /\ \E t \in DOMAIN todos :
          /\ IsQuizTask(t)
          /\ todos[t].status = "completed"
          /\ anns[todos[t].related_announcement].deadline < now

\* C5: an accepted faculty update of a task linked to a quiz or assignment
\* announcement to completed or delayed, whatever the previous status, adds
\* exactly one task: same owner, title "Check " + the task's title, pending,
\* no due date, no announcement link; every other row is as the update of
\* the status leaves it.
C5_FacultyCheckTask ==
    [][(/\ last'.op = "updateFaculty" /\ last'.code = 200
        /\ last'.tid \in DOMAIN todos
        /\ todos[last'.tid].user_id \in Faculty
        /\ IsQuizTask(last'.tid) \/ IsAssignmentTask(last'.tid)
        /\ todos'[last'.tid].status \in {"completed", "delayed"})
          => \E n \in DOMAIN todos' \ DOMAIN todos :
                /\ DOMAIN todos' = DOMAIN todos \cup {n}
                /\ todos'[n] = [user_id |-> todos[last'.tid].user_id,
                                title |-> "Check " \o todos[last'.tid].title,
                                status |-> "pending",
                                due_date |-> NoTime,
                                related_announcement |-> NoAnn]
                /\ \A t \in DOMAIN todos \ {last'.tid} : todos'[t] = todos[t]]_vars

\* a faculty member set an already completed quiz task to delayed and got
\* the reminder "Check Quiz: HW"
C5_Witness ==
    /\ last.op = "updateFaculty" /\ last.code = 200 /\ last.prev = "completed"
    /\ last.tid \in DOMAIN todos /\ IsQuizTask(last.tid)
    /\ todos[last.tid].status = "delayed"
    /\ last.created \in DOMAIN todos
    /\ todos[last.created].title = "Check Quiz: HW"
    /\ todos[last.created].status = "pending"
\* C6: a manual status update changes a leaderboard total only when it is
\* an accepted student update to completed of a student-owned task linked to
\* an assignment announcement with a course reference and a usable deadline;
\* completing a task without announcement link, or setting any task to
\* pending or delayed, leaves every leaderboard entry as it was.
C6_LeaderboardFrame ==
    [][ManualUpdate(last'.op)
          => /\ (leaderboard' # leaderboard)
                  => /\ last'.op = "updateStudent" /\ last'.code = 200
                     /\ last'.tid \in DOMAIN todos
                     /\ todos[last'.tid].user_id \in Students
                     /\ IsAssignmentTask(last'.tid)
                     /\ anns[todos[last'.tid].related_announcement]
                            .section_course_code = CourseCode
                     /\ \/ anns[todos[last'.tid].related_announcement].deadline # NoTime
                        \/ todos[last'.tid].due_date # NoTime
                     /\ todos'[last'.tid].status = "completed"
             /\ (/\ last'.code = 200
                 /\ \/ todos[last'.tid].related_announcement = NoAnn
                    \/ todos'[last'.tid].status \in {"pending", "delayed"})
                  => leaderboard' = leaderboard]_vars

\* a student with a leaderboard entry completed a personal task and was
\* awarded nothing
C6_Witness ==
    /\ last.op = "updateStudent" /\ last.code = 200 /\ last.points = 0
    /\ last.tid \in DOMAIN todos
    /\ todos[last.tid].related_announcement = NoAnn
    /\ todos[last.tid].status = "completed"
    /\ todos[last.tid].user_id \in DOMAIN leaderboard
    /\ leaderboard[todos[last.tid].user_id].total_points = Pts(100)

\* the time component as section 4.3 states it, d ticks after the deadline
StatedAssignmentPoints(d) ==
    IF d < 0 THEN Min(3 * (0 - d), Pts(72))
    ELSE IF d > 0 THEN 0 - Min(10 * d, Pts(100))
    ELSE 0

\* the bonus of a rank among n entries as section 4.3 states it
StatedBonus(rank, n) ==
    IF n = 1 THEN Pts(25)
    ELSE IF (n - rank + 1) * 100 >= 75 * n THEN Pts(25)
    ELSE IF (n - rank + 1) * 100 >= 50 * n THEN Pts(15)
    ELSE 0

\* the positions at which new_total stands when it is sorted, descending,
\* into the totals others (one per index): after every greater total, among
\* the equal ones
StatedRanks(others, new_total) ==
    LET greater == Cardinality({i \in DOMAIN others : others[i] > new_total})
        equal == Cardinality({i \in DOMAIN others : others[i] = new_total})
    IN (greater + 1)..(greater + equal + 1)

\* C7: an accepted student update to completed of an assignment task whose
\* owner has a leaderboard entry adds max(100 + assignment_points +
\* competitive_bonus, 0) to the owner's total, reports that amount, and
\* leaves every other entry as it was.
C7_AwardAdded ==
    [][(/\ last'.op = "updateStudent" /\ last'.code = 200
        /\ last'.tid \in DOMAIN todos
        /\ IsAssignmentTask(last'.tid)
        /\ todos'[last'.tid].status = "completed"
        /\ todos[last'.tid].user_id \in DOMAIN leaderboard)
          => LET s == todos[last'.tid].user_id
                 ap == StatedAssignmentPoints(
                           now - anns[todos[last'.tid].related_announcement].deadline)
                 peers == DOMAIN leaderboard \ {s}
                 others == [o \in peers |-> leaderboard[o].total_points]
                 new_total == leaderboard[s].total_points + Pts(100) + ap
             IN /\ \E rank \in StatedRanks(others, new_total) :
                      LET final_points ==
                              Max(Pts(100) + ap
                                    + StatedBonus(rank, Cardinality(peers) + 1), 0)
                      IN /\ leaderboard'[s].total_points
                               = leaderboard[s].total_points + final_points
                         /\ last'.points = final_points
                /\ DOMAIN leaderboard' = DOMAIN leaderboard
                /\ \A o \in peers : leaderboard'[o] = leaderboard[o]]_vars

\* the only participant completed an assignment exactly 10 hours early and
\* went from 100 to 255 points
C7_Witness ==
    /\ last.op = "updateStudent" /\ last.code = 200 /\ last.scored
    /\ last.points = Pts(155)
    /\ last.tid \in DOMAIN todos
    /\ IsAssignmentTask(last.tid)
    /\ anns[todos[last.tid].related_announcement].deadline - now = Hours(10)
    /\ DOMAIN leaderboard = {todos[last.tid].user_id}
    /\ leaderboard[todos[last.tid].user_id].total_points = Pts(255)

\* C8: assignment_points is min(3h, 72) h hours before the deadline,
\* -min(10h, 100) h hours after it and 0 at the deadline; it does not
\* decrease with earliness, is strictly higher 24 hours early than 1 hour
\* early, never exceeds 72 and is -100 from 10 hours late on.
C8_TimeComponent ==
    probe.stage = "returned"
        => LET d == probe.hours_diff
               ap == probe.assignment_points
           IN /\ ap = StatedAssignmentPoints(d)
              /\ ap <= Pts(72)
              /\ d >= Hours(10) => ap = 0 - Pts(100)
              /\ \A e \in ProbeHours : e <= d => AssignmentPointsOf(e) >= ap
              /\ d = 0 - Hours(1) => AssignmentPointsOf(0 - Hours(24)) > ap

\* a completion more than 24 hours early got the capped 72 points
C8_Witness ==
    /\ probe.stage = "returned"
    /\ probe.hours_diff < 0 - Hours(24)
    /\ probe.assignment_points = Pts(72)

\* C9: when the acting student's row is the only leaderboard row of the
\* course, the competitive bonus is 25, whatever the completion time and the
\* student's total.
C9_SoleParticipantBonus ==
    probe.stage = "returned" /\ Len(probe.rows) = 1
        => probe.competitive_bonus = Pts(25)

\* a sole participant with 400 points completed 11 hours late: bonus 25,
\* final_points 25
C9_Witness ==
    /\ probe.stage = "returned" /\ Len(probe.rows) = 1
    /\ probe.rows[1].total_points = Pts(400)
    /\ probe.hours_diff = Hours(11)
    /\ probe.competitive_bonus = Pts(25)
    /\ probe.final_points = Pts(25)

\* C10: with N > 1 rows the competitive bonus is 25 for a percentile >= 75,
\* 15 for 50 <= percentile < 75 and 0 below, where percentile =
\* (N - rank + 1) / N * 100 and rank is a position of new_total =
\* current_total + 100 + assignment_points in the descending order of the
\* other totals and new_total.
C10_PercentileBonus ==
    probe.stage = "returned" /\ Len(probe.rows) > 1
        => LET mine == CHOOSE i \in DOMAIN probe.rows :
                           probe.rows[i].student_id = probe.student
               peers == DOMAIN probe.rows \ {mine}
               others == [i \in peers |-> probe.rows[i].total_points]
               new_total == probe.rows[mine].total_points + Pts(100)
                               + StatedAssignmentPoints(probe.hours_diff)
           IN \E rank \in StatedRanks(others, new_total) :
                 probe.competitive_bonus = StatedBonus(rank, Len(probe.rows))

\* four rows, no total equal to new_total, the student third: bonus 15
C10_Witness ==
    /\ probe.stage = "returned" /\ Len(probe.rows) = 4
    /\ probe.competitive_bonus = Pts(15)
    /\ probe.hours_diff = 0 - Hours(1)
    /\ \A i \in DOMAIN probe.rows :
          probe.rows[i].student_id # probe.student
              => probe.rows[i].total_points \in {Pts(100), Pts(272), Pts(400)}
    /\ \E i \in DOMAIN probe.rows :
          /\ probe.rows[i].student_id = probe.student
          /\ probe.rows[i].total_points = Pts(100)

\* ---------------------------------------- claims on concurrent updates
\* a call that scores: it passed the checks and its fetched row qualifies
Scoring(r) ==
    /\ r.pc \in {"update", "score", "award", "done"}
    /\ QualifiesRecord(r.task_record, r.new_status)

\* the leaderboard after one completion run from start to end on lb
AfterCompletion(lb, student, task_deadline, at) ==
    LET points_awarded ==
            calculate_assignment_points(LeaderboardRows(lb), student, task_deadline, at)
    IN IF points_awarded > 0
       THEN update_leaderboard_points(lb, student, points_awarded)
       ELSE lb

\* C11: for a scored completion the status change and the point award become
\* visible together: in no state is the status write of a call committed
\* while its award is not, or the award committed while the status is not.
C11_StatusAndAwardTogether ==
    \A p \in Requests :
        Scoring(inflight[p]) =>
            (inflight[p].updated_record = "row" <=> inflight[p].awarded)

\* C12: two concurrent completions of two different assignment tasks by the
\* same student leave the total that the two completions give when run one
\* after the other, in one order or the other.
C12_CompletionsSerialized ==
    LET a == inflight["r1"]
        b == inflight["r2"]
        start == [leaderboard EXCEPT
                     ![a.student_id].total_points = BoardOfTwo[a.student_id].total_points]
        da == TaskDeadlineRecord(a.task_record)
        db == TaskDeadlineRecord(b.task_record)
    IN (/\ a.pc = "done" /\ a.code = 200 /\ QualifiesRecord(a.task_record, a.new_status)
        /\ b.pc = "done" /\ b.code = 200 /\ QualifiesRecord(b.task_record, b.new_status)
        /\ a.student_id = b.student_id /\ a.todo_id # b.todo_id)
       => leaderboard[a.student_id].total_points \in
             {AfterCompletion(AfterCompletion(start, a.student_id, da, now),
                              a.student_id, db, now)[a.student_id].total_points,
              AfterCompletion(AfterCompletion(start, a.student_id, db, now),
                              a.student_id, da, now)[a.student_id].total_points}

\* C13: a scored update that ends in a store failure is rolled back as a
\* whole: neither its status write nor its award stays committed.
C13_FailureRollsBack ==
    \A p \in Requests :
        (/\ inflight[p].pc = "done" /\ inflight[p].detail = "store"
         /\ QualifiesRecord(inflight[p].task_record, inflight[p].new_status))
        => /\ inflight[p].updated_record # "row"
           /\ ~inflight[p].awarded

\* C14: once the transition to completed of an assignment task is committed
\* and a positive final_points was computed for it, the amount has been added
\* to the student's total when the call ends.
C14_AwardNeverDropped ==
    \A p \in Requests :
        (/\ inflight[p].pc = "done"
         /\ inflight[p].updated_record = "row"
         /\ inflight[p].new_status = "completed"
         /\ inflight[p].points_awarded > 0)
        => inflight[p].awarded

\* ------------------------------------------------ claims on rejections
\* C15: a request for a status outside {pending, completed, delayed} on an
\* existing task of the actor is answered with 400 (InvalidStatus) whatever
\* the category and the current status of the task, on the student and on the
\* faculty path, and such a response leaves every task, the todo serial and
\* the leaderboard as they were.
C15_InvalidStatusRejected ==
    /\ [](\A t \in DOMAIN todos : \A st \in ReqStatuses \ Statuses :
             /\ todos[t].user_id \in Students =>
                   LET o == StudentUpdateOutcome(todos[t].user_id,
                                                 todos[t].user_id, t, st)
                   IN o = "invalid" /\ CodeOf(o) = 400
             /\ todos[t].user_id \in Faculty =>
                   LET o == FacultyUpdateOutcome(todos[t].user_id,
                                                 todos[t].user_id, t, st)
                   IN o = "invalid" /\ CodeOf(o) = 400)
    /\ [][(ManualUpdate(last'.op) /\ last'.detail = "invalid")
             => /\ last'.code = 400
                /\ todos' = todos
                /\ nextTodoId' = nextTodoId
                /\ leaderboard' = leaderboard]_vars

\* a student's request for an unknown status was answered with 400 while
\* every task of a student was a quiz task, one of them already completed
C15_Witness ==
    /\ last.op = "updateStudent" /\ last.code = 400 /\ last.detail = "invalid"
    /\ \A t \in DOMAIN todos : todos[t].user_id \in Students => IsQuizTask(t)
    /\ \E t \in DOMAIN todos :
          todos[t].user_id \in Students /\ todos[t].status = "completed"

\* whether todo_id names an existing task owned by user
Owns(user, todo_id) == todo_id \in DOMAIN todos /\ todos[todo_id].user_id = user

\* C16 (as stated): a status update for a task that does not exist or is
\* not owned by the actor is answered with 404 NotFound.
C16_NotOwnedIsNotFound ==
    \A a, s \in Students : \A t \in DOMAIN todos : \A st \in ReqStatuses :
        todos[t].user_id # a
            => CodeOf(StudentUpdateOutcome(a, s, t, st)) = 404

\* C16 (amended): a status update for a task that does not exist or is not
\* owned by the actor is rejected, with 404 when the actor addresses their
\* own task list and with 403 when the request addresses the list of another
\* user; a request is accepted only from the owner of the task, and a manual
\* update changes the status of no task but the one it was accepted for.
C16_NotOwnedRejected ==
    /\ [](/\ \A a, s \in Students : \A t \in 1..MaxTodoId : \A st \in ReqStatuses :
               LET o == StudentUpdateOutcome(a, s, t, st)
               IN /\ ~Owns(a, t) => o = (IF a # s THEN "own" ELSE "notfound")
                  /\ o = "ok" => a = s /\ Owns(a, t)
          /\ \A a, f \in Faculty : \A t \in 1..MaxTodoId : \A st \in ReqStatuses :
               LET o == FacultyUpdateOutcome(a, f, t, st)
               IN /\ ~Owns(a, t) => o = (IF a # f THEN "own" ELSE "notfound")
                  /\ o = "ok" => a = f /\ Owns(a, t)
          /\ CodeOf("own") = 403 /\ CodeOf("notfound") = 404)
    /\ [][/\ (ManualUpdate(last'.op) /\ last'.detail \in {"own", "notfound"})
                => todos' = todos /\ last'.code = CodeOf(last'.detail)
          /\ \A t \in DOMAIN todos :
               (ManualUpdate(last'.op) /\ t \in DOMAIN todos'
                /\ todos'[t].status # todos[t].status)
                => /\ last'.code = 200 /\ last'.tid = t
                   /\ last'.op = "updateStudent" <=> todos[t].user_id \in Students]_vars

\* a student's request was answered with 404 although every task id was in
\* use: the task it named belongs to another user
C16_Witness ==
    /\ last.op = "updateStudent" /\ last.code = 404 /\ last.detail = "notfound"
    /\ DOMAIN todos = 1..MaxTodoId

\* the ways a status update is turned away before it writes
Rejections == {"own", "notfound", "invalid", "quiz", "completed"}

\* C17: a status update that is rejected (ownership mismatch, manual edit of
\* a quiz task, change to a completed assignment, invalid status) changes no
\* task, creates no task and changes no leaderboard entry; nothing else of
\* the store changes either.
C17_RejectionChangesNothing ==
    [][(ManualUpdate(last'.op) /\ last'.detail \in Rejections)
          => /\ last'.code \in {400, 403, 404}
             /\ todos' = todos
             /\ nextTodoId' = nextTodoId
             /\ leaderboard' = leaderboard
             /\ UNCHANGED <<enrolled, anns, nextAnnId>>]_vars

\* a student who had earned points on a task was turned away with 403 on the
\* same task after its announcement had become a quiz
C17_Witness ==
    /\ last.op = "updateStudent" /\ last.code = 403 /\ last.detail = "quiz"
    /\ last.tid \in DOMAIN todos
    /\ todos[last.tid].user_id \in DOMAIN leaderboard
    /\ leaderboard[todos[last.tid].user_id].total_points > Pts(100)

\* -------------------------------------------------- claims on the store
\* the tasks a step removes from "Todo"
Removed(t) == t \in DOMAIN todos /\ t \notin DOMAIN todos'

\* C18 (as stated): a task is removed from the store only by the deletion of
\* the announcement it is linked to.
C18_RemovedOnlyByAnnouncementDeletion ==
    [][\A t \in 1..MaxTodoId :
          Removed(t)
              => /\ last'.op = "deleteAnnouncement"
                 /\ todos[t].related_announcement \in DOMAIN anns
                 /\ todos[t].related_announcement \notin DOMAIN anns']_vars

\* C18 (amended): a task is removed from the store only together with the
\* announcement it is linked to, or by an update of that announcement whose
\* new type is neither quiz nor assignment; status updates, sweeps, task and
\* announcement creation and every other announcement update remove no task,
\* and a task without announcement is never removed.
C18_RemovedOnlyThroughItsAnnouncement ==
    [][\A t \in 1..MaxTodoId :
          Removed(t)
              => /\ todos[t].related_announcement \in DOMAIN anns
                 /\ \/ /\ last'.op = "deleteAnnouncement"
                       /\ todos[t].related_announcement \notin DOMAIN anns'
                    \/ /\ last'.op = "updateAnnouncement"
                       /\ todos[t].related_announcement \in DOMAIN anns'
                       /\ anns'[todos[t].related_announcement].type
                             \notin {"quiz", "assignment"}]_vars

\* an announcement was deleted with its tasks while a task without
\* announcement stayed
C18_Witness ==
    /\ last.op = "deleteAnnouncement"
    /\ anns = << >>
    /\ \E t \in 1..(nextTodoId - 1) : t \notin DOMAIN todos
    /\ \E t \in DOMAIN todos : todos[t].related_announcement = NoAnn

\* C19: in every state the students with a leaderboard entry for the course
\* are exactly the enrolled students (the table is keyed by the pair, so one
\* entry each); an enrollment adds the entry of the new student with 100
\* points and is_anonymous false and touches no other entry; no other
\* operation adds or removes an entry; and initialising a pair that has an
\* entry leaves the table as it is.
C19_OneEntryPerEnrolledStudent ==
    /\ [](/\ DOMAIN leaderboard = enrolled
          /\ \A s \in DOMAIN leaderboard : InitializeEntry(leaderboard, s) = leaderboard)
    /\ [][/\ last'.op = "enroll"
                => \E s \in Students :
                      /\ s \notin enrolled /\ enrolled' = enrolled \cup {s}
                      /\ DOMAIN leaderboard' = DOMAIN leaderboard \cup {s}
                      /\ leaderboard'[s].total_points = Pts(100)
                      /\ leaderboard'[s].is_anonymous = FALSE
                      /\ \A x \in DOMAIN leaderboard : leaderboard'[x] = leaderboard[x]
          /\ last'.op # "enroll"
                => /\ DOMAIN leaderboard' = DOMAIN leaderboard
                   /\ enrolled' = enrolled]_vars

\* the second student enrolled after the first had earned points: two
\* entries, the new one at 100 and the old one above
C19_Witness ==
    /\ last.op = "enroll"
    /\ enrolled = Students
    /\ \E s \in Students : leaderboard[s].total_points = Pts(100)
    /\ \E s \in Students : leaderboard[s].total_points > Pts(100)

\* ------------------------------------------------- claims on the sweeper
C20_Pending(t) == t \in DOMAIN todos /\ C3_Due(t)

C20_Completed(t) ==
    t \in DOMAIN todos /\ IsQuizTask(t) /\ todos[t].status = "completed"

\* the task is gone, its announcement is no quiz any more, or its owner has
\* set it to delayed by hand
C20_Withdrawn(t) ==
    \/ t \notin DOMAIN todos
    \/ ~IsQuizTask(t)
    \/ todos[t].status = "delayed"

\* a sweep cut short by a store failure: the sweeper task lives on and every
\* row is as it was or is a due row now completed
C20_FailedCycleEnds ==
    (last'.op = "sweep" /\ last'.code = 500)
        => /\ sweeper' = "running"
           /\ DOMAIN todos' = DOMAIN todos
           /\ \A t \in DOMAIN todos :
                 \/ todos'[t] = todos[t]
                 \/ C3_Due(t) /\ todos'[t] = [todos[t] EXCEPT !.status = "completed"]

C21_AcceptedExactlyOnEdges ==
    /\ [](\A t \in DOMAIN todos : \A st \in Statuses :
             (todos[t].user_id \in Students /\ ~IsQuizTask(t))
                 => LET o == StudentUpdateOutcome(todos[t].user_id,
                                                  todos[t].user_id, t, st)
                    IN IF IsAssignmentTask(t) /\ todos[t].status = "completed"
                       THEN o = "completed" /\ CodeOf(o) = 403
                       ELSE o = "ok")
    /\ [][(last'.op = "updateStudent" /\ last'.code = 200)
             => /\ last'.tid \in DOMAIN todos
                /\ last'.req \in Statuses
                /\ last'.prev = todos[last'.tid].status
                /\ todos' = [todos EXCEPT ![last'.tid].status = last'.req]
                /\ ~IsQuizTask(last'.tid)
                /\ IsAssignmentTask(last'.tid)
                      => last'.prev \in {"pending", "delayed"}]_vars

\* a student took their assignment task from delayed back to pending
C21_Witness ==
    /\ last.op = "updateStudent" /\ last.code = 200
    /\ last.prev = "delayed" /\ last.req = "pending"
    /\ last.tid \in DOMAIN todos
    /\ IsAssignmentTask(last.tid)
    /\ todos[last.tid].status = "pending"

\* ------------------------------------------------- claims on the ranking
\* the other rows of the probe whose total is greater than, or equal to, x
C22_Greater(x) ==
    {i \in DOMAIN probe.rows :
        probe.rows[i].student_id # probe.student /\ probe.rows[i].total_points > x}

C22_Equal(x) ==
    {i \in DOMAIN probe.rows :
        probe.rows[i].student_id # probe.student /\ probe.rows[i].total_points = x}

C22_NewTotal ==
    CurrentStudentPoints(probe.rows, probe.student) + Pts(100)
        + StatedAssignmentPoints(probe.hours_diff)

\* C22 (as stated): when new_total equals the total of other students, the
\* rank used for the percentile counts the acting student last among the
\* equal values: after every greater and every equal total.
C22_RankedLastAmongTies ==
    (probe.stage = "returned" /\ C22_Equal(C22_NewTotal) # {})
        => probe.new_rank = Cardinality(C22_Greater(C22_NewTotal))
                               + Cardinality(C22_Equal(C22_NewTotal)) + 1

\* C22 (amended): when new_total equals the total of other students, the
\* rank used for the percentile counts the acting student first among the
\* equal values: the rank is one more than the number of strictly greater
\* totals, and the bonus is the one of that rank.
C22_RankedFirstAmongTies ==
    (probe.stage = "returned" /\ C22_Equal(C22_NewTotal) # {})
        => /\ probe.new_rank = Cardinality(C22_Greater(C22_NewTotal)) + 1
           /\ probe.competitive_bonus = StatedBonus(probe.new_rank, Len(probe.rows))

\* the student reaches 200 points at the deadline where the only other
\* student stands at 200: rank 1 of 2 and bonus 25, where the last place
\* among the equal values would give 15
C22_Witness ==
    /\ probe.stage = "returned" /\ Len(probe.rows) = 2
    /\ probe.hours_diff = 0
    /\ C22_NewTotal = Pts(200)
    /\ Cardinality(C22_Equal(C22_NewTotal)) = 1
    /\ probe.new_rank = 1
    /\ probe.competitive_bonus = Pts(25)
    /\ StatedBonus(2, 2) = Pts(15)

\* ------------------------------------------- claims on the sweep's frame
\* C23: a sweep changes nothing but the status of rows it matched: it adds
\* no task (no check task, whoever owns the completed row) and hands out no
\* todo id, changes no leaderboard entry, announcement or enrollment, leaves
\* every task that is not a pending quiz task with an expired deadline as it
\* was, and changes of a matched task only the status, to completed.
C23_SweepFrame ==
    [][last'.op = "sweep"
          => /\ DOMAIN todos' = DOMAIN todos
             /\ nextTodoId' = nextTodoId
             /\ leaderboard' = leaderboard
             /\ UNCHANGED <<anns, nextAnnId, enrolled, now>>
             /\ \A t \in DOMAIN todos :
                   /\ ~C3_Due(t) => todos'[t] = todos[t]
                   /\ C3_Due(t) => todos'[t] \in
                         {todos[t], [todos[t] EXCEPT !.status = "completed"]}]_vars

\* a sweep completed the quiz task of the faculty member while a todo id
\* was free and a student held a leaderboard entry: no task was added
C23_Witness ==
    /\ last.op = "sweep" /\ last.code = 200 /\ last.count = 1
    /\ nextTodoId <= MaxTodoId
    /\ DOMAIN todos = 1..(nextTodoId - 1)
    /\ \A t \in DOMAIN todos :
          /\ todos[t].user_id \in Faculty
          /\ IsQuizTask(t) /\ todos[t].status = "completed"
    /\ DOMAIN leaderboard # {}

\* ------------------------------------- claims on the sweep's interleavings
\* C24: every status write of the sweeper changes a task that, at the
\* moment of the write, is pending and linked to a quiz announcement whose
\* deadline has passed, whatever manual status updates and announcement
\* updates ran since the scan.
C24_SweeperWritesOnlyDuePending ==
    [][(last'.op = "sweepWrite" /\ last'.tid # 0) => C3_Due(last'.tid)]_vars

\* ------------------------------------- claims on the announcement's tasks
\* the tasks of user linked to announcement id after the step
C25_TasksOf(user, id) ==
    {t \in DOMAIN todos' :
        todos'[t].user_id = user /\ todos'[t].related_announcement = id}

\* C25: after an announcement is created or updated with type quiz or
\* assignment, every student enrolled at that moment and the authoring
\* faculty member own exactly one task linked to it each, students who
\* enrolled after its tasks were first created included.
C25_OneTaskPerEnrolledStudent ==
    [][(/\ last'.op \in {"createAnnouncement", "updateAnnouncement"}
        /\ last'.ann \in DOMAIN anns'
        /\ anns'[last'.ann].type \in {"quiz", "assignment"})
          => \A u \in enrolled' \cup {anns'[last'.ann].faculty_id} :
                Cardinality(C25_TasksOf(u, last'.ann)) = 1]_vars

\* ------------------------------------------------ claims on the leaderboard
\* C26: every leaderboard total is at least 100 in every state and never
\* decreases: an entry starts at 100 at enrollment, a total changes only in
\* an accepted student update that awards a strictly positive amount, by
\* exactly that amount, and an update that awards 0 writes nothing to the
\* leaderboard.
C26_TotalsStartAtBaseAndGrow ==
    /\ [](\A s \in DOMAIN leaderboard : leaderboard[s].total_points >= Pts(100))
    /\ [][/\ \A s \in DOMAIN leaderboard :
               /\ s \in DOMAIN leaderboard'
               /\ leaderboard'[s].total_points >= leaderboard[s].total_points
               /\ (leaderboard'[s].total_points # leaderboard[s].total_points)
                     => /\ last'.op = "updateStudent" /\ last'.code = 200
                        /\ last'.points > 0
                        /\ leaderboard'[s].total_points
                              = leaderboard[s].total_points + last'.points
          /\ \A s \in DOMAIN leaderboard' \ DOMAIN leaderboard :
               last'.op = "enroll" /\ leaderboard'[s].total_points = Pts(100)
          /\ (last'.op = "updateStudent" /\ last'.points = 0)
               => leaderboard' = leaderboard]_vars

\* a student completed the assignment 11 hours late, behind two students
\* who had earned points: the award is 0 and the entry is as enrollment
\* left it, at 100 points
C26_Witness ==
    /\ last.op = "updateStudent" /\ last.code = 200 /\ last.scored
    /\ last.points = 0
    /\ last.tid \in DOMAIN todos
    /\ todos[last.tid].status = "completed"
    /\ leaderboard[todos[last.tid].user_id].total_points = Pts(100)
    /\ leaderboard[todos[last.tid].user_id].last_updated < now
    /\ \E x, y \in DOMAIN leaderboard :
          /\ x # y
          /\ leaderboard[x].total_points > Pts(100)
          /\ leaderboard[y].total_points > Pts(100)

\* C27: an accepted change of the anonymity setting leaves the total of
\* every entry and every entry but one as they were, and the order in which
\* get_course_leaderboard returns the entries (total_points descending,
\* then last_updated ascending) is the same after it: no two entries swap.
C27_AnonymityKeepsTotalsAndOrder ==
    [][(last'.op = "setAnonymity" /\ last'.code = 200)
          => /\ DOMAIN leaderboard' = DOMAIN leaderboard
             /\ \A s \in DOMAIN leaderboard :
                   leaderboard'[s].total_points = leaderboard[s].total_points
             /\ \E s \in DOMAIN leaderboard :
                   \A x \in DOMAIN leaderboard \ {s} : leaderboard'[x] = leaderboard[x]
             /\ \A x, y \in DOMAIN leaderboard :
                   ReturnedBefore(leaderboard, x, y)
                       => ~ReturnedBefore(leaderboard', y, x)]_vars

C29_AwardedAtMostOnce ==
    \A p, q \in Requests :
        (p # q /\ inflight[p].awarded /\ inflight[q].awarded)
            => inflight[p].todo_id # inflight[q].todo_id

\* ------------------------------------------ claims on the check task
\* C30: a faculty status update on a quiz or assignment task to completed
\* or delayed and the creation of its "Check" task are applied together or
\* not at all: an accepted update stores the requested status and adds
\* exactly the check task, and an update whose transaction fails is answered
\* with 500 and leaves every task, the task counter included, as it was.
C30_StatusAndCheckTaskTogether ==
    [][(/\ last'.op = "updateFaculty"
        /\ last'.tid \in DOMAIN todos
        /\ SpawnsCheck(last'.tid, last'.req))
          => \/ /\ last'.code = 200
                /\ last'.created = nextTodoId
                /\ nextTodoId' = nextTodoId + 1
                /\ DOMAIN todos' = DOMAIN todos \cup {last'.created}
                /\ todos'[last'.tid] =
                       [todos[last'.tid] EXCEPT !.status = last'.req]
                /\ todos'[last'.created] =
                       CheckTask(todos[last'.tid].user_id, last'.tid)
                /\ \A t \in DOMAIN todos \ {last'.tid} : todos'[t] = todos[t]
             \/ /\ last'.code = 500
                /\ last'.created = 0
                /\ todos' = todos
                /\ nextTodoId' = nextTodoId]_vars

\* a faculty member's request to complete their pending quiz task failed
\* in the store: the task is still pending and no check task exists
C30_Witness ==
    /\ last.op = "updateFaculty" /\ last.code = 500
    /\ last.tid \in DOMAIN todos
    /\ IsQuizTask(last.tid)
    /\ todos[last.tid].user_id \in Faculty
    /\ last.req = "completed"
    /\ last.prev = "pending"
    /\ todos[last.tid].status = "pending"
    /\ \A t \in DOMAIN todos : todos[t].related_announcement # NoAnn

====
